---- MODULE Spec2Model ----
(***************************************************************************)
(* Model of the blocky ledger: the Chainy chain/block/queue pipeline       *)
(* (src/src/Storage/SQLite.js lines 1047-1744) on top of the SQLite        *)
(* storage engine (src/src/Storage/SQLite.js lines 1-291).                 *)
(*                                                                         *)
(* JavaScript runs one task at a time and switches tasks only at an await. *)
(* Every action below is the code that runs between two awaits of one      *)
(* task: the caller's add() (and the drain and rotation it starts) or the  *)
(* job of one block in the commit queue.                                   *)
(*                                                                         *)
(* The npm package `queue` is an external library.  Its documented         *)
(* behaviour is folded into the actions that use it: push() with autostart *)
(* starts jobs while fewer than `concurrency` are running, a job that      *)
(* settles emits success or error, and end is emitted when no job is       *)
(* running and none is waiting.  No job timeout is configured (the         *)
(* default of Chain's options).                                            *)
(***************************************************************************)
EXTENDS Integers, Sequences, FiniteSets, TLC

(***************************************************************************)
(* Bounds of the model.                                                    *)
(***************************************************************************)
MaxAdds == 4            \* add() calls a run makes
MaxBlocks == 2          \* no block with this index or a higher one is filled
MaxFaults == 1          \* storage calls the environment makes fail in one run
MaxTime == 1            \* a transaction's timestamp is 0..MaxTime
MaxBlockTime == 0       \* a block's timestamp is 0..MaxBlockTime
NumFingerprints == 2    \* distinct (data, from, to, nom) payloads
MaxSeed == 1            \* Math.random() * maxRandomEntropy yields 0..MaxSeed
MaxBatch == 2           \* options.maxBlockTransactions is 1..MaxBatch
MaxConcurrency == 2     \* BlockQueue.concurrency the caller may ask for
PowMod == 2             \* size of the alphabet of the first hash character
MaxLiveBlocks == 3      \* as MaxBlocks, in the runs of the liveness claims
MaxLiveAdds == 3        \* as MaxAdds, in the runs of the liveness claims
MaxResumeAdds == 3      \* as MaxAdds, in the runs that open a chain again
MaxCallers == 2         \* add() calls that may be under way at once
MaxAccounts == 2        \* distinct account IDs of one shape
MaxObjectAdds == 3      \* as MaxAdds, in the runs that add the same objects again
MaxNom == 1             \* a transaction's nom is 0..MaxNom
MaxOverlapAdds == 3     \* as MaxAdds, in the runs with overlapping add() calls

Timestamps == 0..MaxTime
Callers == 1..MaxCallers
BlockTimestamps == 0..MaxBlockTime
Fingerprints == 1..NumFingerprints
BlockIndexes == 0..MaxBlocks

VARIABLES
  options,          \* Chain.options: maxBlockTransactions, powHashPrefix, transactionPrefix, BlockQueue
  transactionPool,  \* Chain._transactionPool: transactions not yet in a block
  pendingPool,      \* Chain._pendingPool: familiar hashes in flight
  workingBlock,     \* index of Chain.workingBlock in blocks, -1 before initialize
  blocks,           \* the Block objects of the chain, by index
  length,           \* Chain._length
  events,           \* what Chain._eventEmitter has emitted, in order
  concurrency,      \* queue.concurrency
  jobs,             \* queue.jobs: the jobs waiting, in order
  job,              \* the jobs started: block index -> [pc, seed, err, success, meta]
                    \* (pc: "load", "hung", "pow", "commit", "index", "settle", "done")
  cpc,              \* where the caller's add() is: "new", "idle", "insert", "rotate"
  ctx,              \* the transaction whose insert the drain awaits
  count,            \* _processTransactionPool's count
  arg,              \* the transaction of the latest add() call
  ret,              \* what the latest add() returned: "none", "true", "false"
  nAdds,            \* add() calls made
  accepted,         \* add() calls that passed the duplicate check
  calls,            \* add() calls that overlap: caller -> [pc, ctx, count, block, pos]
  made,             \* the latest new Transaction(...): [from, to, nom, error]
  dir,              \* the storage directory: file name -> rows kept in the file
  blockTable,       \* storage: rows of table block
  transIDX,         \* storage: rows of table trans
  memberFIDX,       \* storage: rows of table member (by from)
  memberTIDX,       \* storage: rows of table member (by to)
  blockFiles,       \* storage: index -> rows of table block_<index>
  faultsLeft,       \* storage calls the environment may still make fail
  nFail             \* storage calls that have failed

cvars == <<options, transactionPool, pendingPool, workingBlock, blocks, length, events>>
qvars == <<concurrency, jobs, job>>
avars == <<cpc, ctx, count, arg, ret, nAdds, accepted, calls, made, dir>>
svars == <<blockTable, transIDX, memberFIDX, memberTIDX, blockFiles, faultsLeft, nFail>>
vars == <<cvars, qvars, avars, svars>>

(***************************************************************************)
(* Helpers.                                                                *)
(***************************************************************************)
Range(s) == {s[i] : i \in 1..Len(s)}

RECURSIVE SumSeq(_)
SumSeq(s) == IF s = <<>> THEN 0 ELSE Head(s) + SumSeq(Tail(s))

\* Array.prototype.indexOf, 1-based; 0 when absent.
IndexOf(s, x) ==
  IF x \in Range(s) THEN CHOOSE i \in 1..Len(s) : s[i] = x /\ \A j \in 1..(i-1) : s[j] # x
  ELSE 0

RemoveAt(s, i) == SubSeq(s, 1, i-1) \o SubSeq(s, i+1, Len(s))

\* pendingPool.splice(pendingPool.indexOf(h), 1): an index of -1 counts from
\* the end, so an absent h removes the last element.
SpliceIndexOf(s, h) ==
  IF s = <<>> THEN s
  ELSE IF h \in Range(s) THEN RemoveAt(s, IndexOf(s, h))
  ELSE RemoveAt(s, Len(s))

RECURSIVE SpliceAll(_, _)
SpliceAll(s, hs) ==
  IF hs = <<>> THEN s ELSE SpliceAll(SpliceIndexOf(s, Head(hs)), Tail(hs))

(***************************************************************************)
(* Hashes.  ObjectHash is modelled as a collision-free digest: the hash of *)
(* a value is the value itself, preceded for a block by the first          *)
(* character of the hex string, which is what a one-character proof-of-    *)
(* work prefix is compared with.                                           *)
(***************************************************************************)
NullHash == <<>>

\* from = null, to = null.
NoAccount == [id |-> 0, hex |-> 0, len |-> 0]

\* A transaction: its payload f, its timestamp ts, and np, the number of
\* times the prefix was put in front of its hash.
Transaction(f, ts) == [f |-> f, ts |-> ts, np |-> 0]

\* Transaction.hash: prefix^np followed by hash(data, from, to, nom, timestamp).
TxHash(tx) == <<tx.np, tx.f, tx.ts>>

\* Mutant of FamiliarHash: the timestamp is hashed too.
FamiliarHashWithTimestamp(tx) == <<tx.f, tx.ts>>

\* Transaction.familiarHash: hash(data, from, to, nom).
FamiliarHash(tx) == tx.f

\* set prefix: this._hash = `${prefix}${this._hash}`.
SetPrefix(tx) == [tx EXCEPT !.np = @ + 1]

FirstChar(h) == IF h = NullHash THEN 0 ELSE h[1]

TxDigit(th) == th[1] + th[2] + th[3]

\* ObjectHash().hash([index, previousHash, length, entropy, timestamp].concat(hashes))
ObjectHash(index, previousHash, len, entropy, timestamp, hashes) ==
  << (index + FirstChar(previousHash) + len + entropy + timestamp
        + SumSeq([i \in 1..Len(hashes) |-> TxDigit(hashes[i])])) % PowMod,
     index, previousHash, len, entropy, timestamp, hashes >>

\* hash.slice(0, powHashPrefix.length) === powHashPrefix
HasPowPrefix(h) == FirstChar(h) = 0

(***************************************************************************)
(* Storage engine (Storage/SQLite): one table per block, the chain's       *)
(* block table and the transaction index.                                  *)
(***************************************************************************)
\* Mutant of StorageInitialize: the table is created only if it is missing.
StorageOpen(files, index) ==
  [j \in DOMAIN files \cup {index} |-> IF j \in DOMAIN files THEN files[j] ELSE {}]

\* Storage Block.initialize: open the block's file, drop and create block_<index>.
StorageInitialize(files, index) ==
  [j \in DOMAIN files \cup {index} |-> IF j = index THEN {} ELSE files[j]]

\* INSERT INTO block_<index> VALUES (length, hash, ...): i is the primary key
\* and hash has a unique index.
CanInsertTransaction(files, index, pos, hash) ==
  /\ index \in DOMAIN files
  /\ \A r \in files[index] : r.i # pos /\ r.hash # hash

InsertTransaction(files, index, pos, hash) ==
  [files EXCEPT ![index] = @ \cup {[i |-> pos, hash |-> hash]}]

RECURSIVE OrderByI(_)
OrderByI(rows) ==
  IF rows = {} THEN <<>>
  ELSE LET first == CHOOSE r \in rows : \A q \in rows : r.i <= q.i
       IN <<first.hash>> \o OrderByI(rows \ {first})

\* Storage Block.loadTransactionHashes: SELECT ... ORDER BY i ASC.  A missing
\* table makes the query throw; the callers then keep an empty list.
LoadTransactionHashes(files, index) ==
  IF index \in DOMAIN files THEN OrderByI(files[index]) ELSE <<>>

\* The row of table block: [index, hash, previousHash, length, entropy, timestamp].
MetaData(b) ==
  [i |-> b.index, hash |-> b.hash, previousHash |-> b.previousHash,
   length |-> b.length, entropy |-> b.entropy, timestamp |-> b.timestamp]

\* INSERT INTO block: i is the primary key, hash and previousHash are unique
\* (SQLite holds NULLs to be distinct from each other).
CanInsertBlock(table, row) ==
  \A r \in table :
    /\ r.i # row.i
    /\ r.hash # row.hash
    /\ (row.previousHash = NullHash \/ r.previousHash # row.previousHash)

\* SELECT * FROM block WHERE i = ? LIMIT 1
HasBlockRow(table, index) == \E r \in table : r.i = index
BlockRow(table, index) == CHOOSE r \in table : r.i = index

\* Mutant of NextIndex: the working block always restarts at 0.
NextIndexZero(table) == 0

\* SELECT * FROM block ORDER BY i DESC LIMIT 1, as the index that follows it.
NextIndex(table) ==
  IF table = {} THEN 0
  ELSE (CHOOSE r \in table : \A q \in table : q.i <= r.i).i + 1

\* The INSERTs of Storage Block.commit's loop, in order: for the t-th hash
\* one row of trans, one of member (from) and one of member (to).  k is the
\* number of INSERTs the environment lets through (3 * Len(hashes): all);
\* an INSERT INTO trans of a hash already indexed fails by itself.
RECURSIVE IndexInserts(_, _, _, _, _)
IndexInserts(st, hashes, index, t, k) ==
  IF t > Len(hashes) THEN [st EXCEPT !.ok = TRUE]
  ELSE IF k = 0 \/ \E r \in st.trans : r.hash = hashes[t] THEN [st EXCEPT !.ok = FALSE]
  ELSE LET withTrans == [st EXCEPT !.trans = @ \cup {[hash |-> hashes[t], block |-> index, i |-> t - 1]}]
           m == [hash |-> hashes[t], block |-> index]
       IN IF k = 1 THEN [withTrans EXCEPT !.ok = FALSE]
          ELSE IF k = 2 THEN [withTrans EXCEPT !.f = @ \cup {m}, !.ok = FALSE]
          ELSE IndexInserts([withTrans EXCEPT !.f = @ \cup {m}, !.t = @ \cup {m}],
                            hashes, index, t + 1, k - 3)

(***************************************************************************)
(* Block (Blockchain/Chainy).                                              *)
(***************************************************************************)
\* new Block(chain, index): timestamp is new Date() / 1.
NewBlock(index, timestamp) ==
  [index |-> index, length |-> 0, hash |-> NullHash, txs |-> <<>>, fam |-> <<>>,
   previousHash |-> NullHash, entropy |-> 0, timestamp |-> timestamp]

\* Block.calculateHash(force): reload the hash list from storage when forced
\* or when its length disagrees with _length, then hash the metadata without
\* the hash, followed by the list.
CalculateHash(b, force, files) ==
  LET hashes == IF force \/ Len(b.txs) # b.length
                THEN LoadTransactionHashes(files, b.index) ELSE b.txs
  IN [b EXCEPT !.txs = hashes,
               !.hash = ObjectHash(b.index, b.previousHash, b.length, b.entropy,
                                   b.timestamp, hashes)]

\* Block.load on a new Block(chain, index, 0): the fields of the stored row,
\* then the hash list from storage.
LoadBlock(table, files, index) ==
  LET row == BlockRow(table, index)
  IN [index |-> index, length |-> row.length, hash |-> row.hash,
      txs |-> LoadTransactionHashes(files, index), fam |-> <<>>,
      previousHash |-> row.previousHash, entropy |-> row.entropy,
      timestamp |-> row.timestamp]

\* Mutant of Build: the entropy seed is dropped.
BuildUnseeded(b, previousHash, seed, files) ==
  CalculateHash([b EXCEPT !.previousHash = previousHash, !.entropy = 0], FALSE, files)

\* Block.build up to its first await: previousHash and entropy are set and
\* _proofOfWork computes the first hash.
Build(b, previousHash, seed, files) ==
  CalculateHash([b EXCEPT !.previousHash = previousHash, !.entropy = seed], FALSE, files)

\* Block.add after the storage insert has returned: its result is not read.
BlockAdd(b, tx) ==
  [b EXCEPT !.txs = Append(@, TxHash(tx)),
            !.fam = Append(@, FamiliarHash(tx)),
            !.length = @ + 1]

(***************************************************************************)
(* Queue (Blockchain/Chainy) over the npm queue.                           *)
(***************************************************************************)
Ext(f, k, v) == [j \in DOMAIN f \cup {k} |-> IF j = k THEN v ELSE f[j]]

\* Mutant of QueueConcurrency: the caller's concurrency is kept.
QueueConcurrencyAsked(asked) == asked

\* Queue's constructor: options['concurrency'] = 1, whatever was asked for
\* (options is the chain's own options.BlockQueue object).
QueueConcurrency(asked) == 1

\* queue.pending: the jobs started and not settled.
Pending(jb) == Cardinality({i \in DOMAIN jb : jb[i].pc # "done"})

\* Mutant of StartJob: the previous block is never loaded.
StartJobSkipLoad(q, e) ==
  LET built == Build(q.blocks[e.index], NullHash, e.seed, q.files)
  IN [q EXCEPT !.blocks = [@ EXCEPT ![e.index] = built],
               !.job = Ext(@, e.index,
                 [pc |-> "pow", seed |-> e.seed, err |-> FALSE, success |-> FALSE,
                  meta |-> MetaData(built)])]

\* The job of Queue.push up to its first await.  For index 0 there is no
\* previous block: build(null, seed) runs and computes the first hash.  For
\* index > 0 the job awaits the load of the previous block.
StartJob(q, e) ==
  LET b == q.blocks[e.index]
  IN IF e.index > 0
     THEN [q EXCEPT !.job = Ext(@, e.index,
                      [pc |-> "load", seed |-> e.seed, err |-> FALSE, success |-> FALSE,
                       meta |-> MetaData(b)])]
     ELSE LET built == Build(b, NullHash, e.seed, q.files)
          IN [q EXCEPT !.blocks = [@ EXCEPT ![e.index] = built],
                       !.job = Ext(@, e.index,
                         [pc |-> "pow", seed |-> e.seed, err |-> FALSE, success |-> FALSE,
                          meta |-> MetaData(built)])]

\* Mutant of QueueStart: every waiting job is started at once.
RECURSIVE QueueStartEager(_)
QueueStartEager(q) ==
  IF q.jobs # <<>>
  THEN QueueStartEager(StartJob([q EXCEPT !.jobs = Tail(@)], Head(q.jobs)))
  ELSE q

\* queue.start(): shift and start jobs while fewer than `concurrency` run.
RECURSIVE QueueStart(_)
QueueStart(q) ==
  IF q.jobs # <<>> /\ Pending(q.job) < q.concurrency
  THEN QueueStart(StartJob([q EXCEPT !.jobs = Tail(@)], Head(q.jobs)))
  ELSE q

\* queue.push(job) with autostart.
QueuePush(q, e) == QueueStart([q EXCEPT !.jobs = Append(@, e)])

QueueState ==
  [jobs |-> jobs, job |-> job, blocks |-> blocks, files |-> blockFiles,
   concurrency |-> concurrency]

\* Mutant of PreviousHash: the hash the Block object of the chain holds.
PreviousHashInMemory(table, files, index) == blocks[index].hash

\* Queue.push: previousBlock = new Block(chain, index - 1, 0), load() and
\* calculateHash(true).
PreviousHash(table, files, index) ==
  CalculateHash(LoadBlock(table, files, index), TRUE, files).hash

(***************************************************************************)
(* The job of one block: Queue.push's promise.                             *)
(***************************************************************************)
\* previousBlock.load(), previousBlock.calculateHash(true), then block.build
\* up to its first await.  A missing row rejects the job with the index.
\* Storage Block.load has no try/catch, nor has Block.load or the job: when
\* its open() or its SELECT rejects, the async executor of the job's promise
\* throws, the promise is never settled and the queue never hears of the job.
LoadPrev(i) ==
  /\ i \in DOMAIN job /\ job[i].pc = "load"
  /\ \E fault \in BOOLEAN :
       /\ fault => faultsLeft > 0
       /\ IF fault
          THEN /\ job' = [job EXCEPT ![i].pc = "hung"]
               /\ faultsLeft' = faultsLeft - 1
               /\ nFail' = nFail + 1
               /\ UNCHANGED blocks
          ELSE /\ IF HasBlockRow(blockTable, i - 1)
                  THEN \E previousHash \in {PreviousHash(blockTable, blockFiles, i - 1)} :
                       \E built \in {Build(blocks[i], previousHash, job[i].seed, blockFiles)} :
                         /\ blocks' = [blocks EXCEPT ![i] = built]
                         /\ job' = [job EXCEPT ![i].pc = "pow"]
                  ELSE /\ job' = [job EXCEPT ![i].pc = "settle", ![i].err = TRUE]
                       /\ UNCHANGED blocks
               /\ UNCHANGED <<faultsLeft, nFail>>
  /\ UNCHANGED <<options, transactionPool, pendingPool, workingBlock, length, events,
                 concurrency, jobs, avars, blockTable, transIDX, memberFIDX,
                 memberTIDX, blockFiles>>

\* Mutant of PowSatisfied: the search stops at the first hash.
PowSkipped(prefix, h) == TRUE

\* Block._proofOfWork's exit: powHashPrefix is null (one hash, no loop) or
\* the hash starts with it (break).
PowSatisfied(prefix, h) == ~prefix \/ HasPowPrefix(h)

\* One turn of Block._proofOfWork after its await: leave the loop when no
\* prefix is asked for or the hash has it, and call commit(), which reads
\* metaData; otherwise raise the entropy by one and hash again.
ProofOfWork(i) ==
  /\ i \in DOMAIN job /\ job[i].pc = "pow"
  /\ IF PowSatisfied(options.powHashPrefix, blocks[i].hash)
     THEN /\ job' = [job EXCEPT ![i].pc = "commit", ![i].meta = MetaData(blocks[i])]
          /\ UNCHANGED blocks
     ELSE /\ blocks' = [blocks EXCEPT ![i] =
                 CalculateHash([@ EXCEPT !.entropy = @ + 1], FALSE, blockFiles)]
          /\ UNCHANGED job
  /\ UNCHANGED <<options, transactionPool, pendingPool, workingBlock, length, events,
                 concurrency, jobs, avars, svars>>

\* Storage Block.commit, first INSERT: the row of table block.  When it
\* fails, commit returns false; Block.commit then takes the block's familiar
\* hashes out of the pending pool and the job resolves all the same.
CommitRow(i) ==
  /\ i \in DOMAIN job /\ job[i].pc = "commit"
  /\ \E fault \in BOOLEAN :
       /\ fault => faultsLeft > 0
       /\ IF ~fault /\ CanInsertBlock(blockTable, job[i].meta)
          THEN /\ blockTable' = blockTable \cup {job[i].meta}
               /\ job' = [job EXCEPT ![i].pc = "index"]
               /\ UNCHANGED <<pendingPool, faultsLeft, nFail>>
          ELSE /\ job' = [job EXCEPT ![i].pc = "settle"]
               /\ pendingPool' = SpliceAll(pendingPool, blocks[i].fam)
               /\ faultsLeft' = IF fault THEN faultsLeft - 1 ELSE faultsLeft
               /\ nFail' = nFail + 1
               /\ UNCHANGED blockTable
  /\ UNCHANGED <<options, transactionPool, workingBlock, blocks, length, events,
                 concurrency, jobs, avars, transIDX, memberFIDX, memberTIDX, blockFiles>>

\* Storage Block.commit, the loop over the block's stored hashes and the
\* close; then Block.commit takes the familiar hashes out of the pending pool
\* and the job resolves with the index.
CommitIndex(i) ==
  /\ i \in DOMAIN job /\ job[i].pc = "index"
  /\ LET hashes == LoadTransactionHashes(blockFiles, i)
     IN \E k \in 0..(3 * Len(hashes)) :
          /\ k < 3 * Len(hashes) => faultsLeft > 0
          /\ LET res == IndexInserts([trans |-> transIDX, f |-> memberFIDX,
                                      t |-> memberTIDX, ok |-> TRUE], hashes, i, 1, k)
             IN /\ transIDX' = res.trans
                /\ memberFIDX' = res.f
                /\ memberTIDX' = res.t
                /\ nFail' = IF res.ok THEN nFail ELSE nFail + 1
                /\ job' = [job EXCEPT ![i].pc = "settle", ![i].success = res.ok]
                /\ faultsLeft' = IF k < 3 * Len(hashes) THEN faultsLeft - 1 ELSE faultsLeft
  /\ pendingPool' = SpliceAll(pendingPool, blocks[i].fam)
  /\ UNCHANGED <<options, transactionPool, workingBlock, blocks, length, events,
                 concurrency, jobs, avars, blockTable, blockFiles>>

\* The queue's `end` event, relayed by Chain._initializeEvents as
\* blockCommitQueueEmpty: the queue emits it when a job has settled, none is
\* running and none is waiting.
QueueEmptyEvent == <<"blockCommitQueueEmpty", -1>>

\* Mutant of QueueEnds: the event is emitted after every job.
QueueEndsAfterEachJob(jb, js) == TRUE

QueueEnds(jb, js) == Pending(jb) = 0 /\ js = <<>>

\* queue's next(err, result) when the job's promise settles: success (the
\* chain counts the block and emits blockCommit) or error (blockCommitError);
\* then end when nothing runs and nothing waits, else start().
Settle(i) ==
  /\ i \in DOMAIN job /\ job[i].pc = "settle"
  /\ LET settled == [job EXCEPT ![i].pc = "done"]
         emitted == Append(events, IF job[i].err THEN <<"blockCommitError", i>>
                                   ELSE <<"blockCommit", i>>)
     IN /\ length' = IF job[i].err THEN length ELSE length + 1
        /\ IF QueueEnds(settled, jobs)
           THEN /\ events' = Append(emitted, QueueEmptyEvent)
                /\ job' = settled
                /\ UNCHANGED <<jobs, blocks>>
           ELSE \E q \in {QueueStart([QueueState EXCEPT !.job = settled])} :
                   /\ events' = emitted
                   /\ job' = q.job
                   /\ jobs' = q.jobs
                   /\ blocks' = q.blocks
  /\ UNCHANGED <<options, transactionPool, pendingPool, workingBlock,
                 concurrency, avars, svars>>

(***************************************************************************)
(* Chain (Blockchain/Chainy).                                              *)
(***************************************************************************)
NoTransaction == [f |-> 0, ts |-> 0, np |-> 0]

\* No Transaction has been constructed.
NotMade == [from |-> NoAccount, to |-> NoAccount, nom |-> 0, error |-> "not constructed"]

\* A directory that holds no file.
NoFiles == [file \in {} |-> 0]

\* An add() call that is not under way.
NoCall == [pc |-> "idle", ctx |-> NoTransaction, count |-> 0, block |-> -1, pos |-> 0]

\* Block.add before its await: the prefix is set when one is configured.
WithPrefix(tx) == IF options.transactionPrefix THEN SetPrefix(tx) ELSE tx

\* Chain._isPendingTransaction
IsPendingTransaction(tx) == FamiliarHash(tx) \in Range(pendingPool)

\* Mutant of PoolIsFull: the pool must exceed maxBlockTransactions.
PoolIsFullStrict(pool) == Len(pool) > options.maxBlockTransactions

\* Chain.add: it is time to push the pooled transactions into a block.
PoolIsFull(pool) == Len(pool) >= options.maxBlockTransactions

\* Mutant of KeptRows: the chain's files are removed whatever reload is.
DroppedRows(reload, rows) == {}

\* Storage Chain.initialize(reload): the chain's files are unlinked when
\* reload is false; the tables are then created if they do not exist.
KeptRows(reload, rows) == IF reload THEN rows ELSE {}

\* Chain.initialize(reload) on a Chain object: a new Queue, the storage's
\* initialize (which removes the chain's files when reload is false), then
\* _loadChain: a new working block after the last stored one, its table
\* dropped and created.  Nothing else of the Chain object is assigned.
InitializeChain(reload) ==
  /\ options' = [options EXCEPT !.concurrency = QueueConcurrency(@)]
  /\ concurrency' = options'.concurrency
  /\ jobs' = <<>>
  /\ job' = <<>>
  /\ LET table == KeptRows(reload, blockTable)
         files == IF reload THEN blockFiles ELSE <<>>
         index == IF reload THEN NextIndex(table) ELSE 0
     IN /\ blockTable' = table
        /\ transIDX' = KeptRows(reload, transIDX)
        /\ memberFIDX' = KeptRows(reload, memberFIDX)
        /\ memberTIDX' = KeptRows(reload, memberTIDX)
        /\ blockFiles' = StorageInitialize(files, index)
        /\ workingBlock' = index
        /\ \E timestamp \in BlockTimestamps :
             blocks' = Ext(<<>>, index, NewBlock(index, timestamp))

\* The first initialize(reload) of a Chain object just constructed.
Initialize(reload) ==
  /\ cpc = "new"
  /\ InitializeChain(reload)
  /\ cpc' = "idle"
  /\ UNCHANGED <<transactionPool, pendingPool, length, events,
                 ctx, count, arg, ret, nAdds, accepted, calls, made, dir, faultsLeft, nFail>>

\* Chain.add(transaction) up to its first await or its return: a pending
\* familiar hash is refused; otherwise the transaction is pooled and, when
\* the pool has reached maxBlockTransactions, _processTransactionPool shifts
\* the first transaction and starts adding it to the working block.
Add(tx) ==
  /\ cpc = "idle"
  /\ arg' = tx
  /\ nAdds' = nAdds + 1
  /\ IF IsPendingTransaction(tx)
     THEN /\ ret' = "false"
          /\ UNCHANGED <<transactionPool, pendingPool, cpc, ctx, count, accepted>>
     ELSE LET pool == Append(transactionPool, tx)
          IN /\ pendingPool' = Append(pendingPool, FamiliarHash(tx))
             /\ accepted' = accepted + 1
             /\ IF PoolIsFull(pool)
                THEN /\ transactionPool' = Tail(pool)
                     /\ ctx' = WithPrefix(Head(pool))
                     /\ count' = 0
                     /\ cpc' = "insert"
                     /\ ret' = "none"
                ELSE /\ transactionPool' = pool
                     /\ ret' = "true"
                     /\ UNCHANGED <<cpc, ctx, count>>
  /\ UNCHANGED <<options, workingBlock, blocks, length, events, qvars, svars, calls, made, dir>>

\* Mutant of NextWorkingIndex: the new working block keeps the index.
SameWorkingIndex(index) == index

\* _createNewBlock: new Block(this, this.workingBlock.index + 1).
NextWorkingIndex(index) == index + 1

\* Chain._finalizeBlock: push the working block with a random entropy and
\* emit blockSubmit.
FinalizeBlock(q, seed) == QueuePush(q, [index |-> workingBlock, seed |-> seed])

\* _processTransactionPool after the await of workingBlock.add: the storage
\* insert has succeeded or failed (Block.add does not read which), the hash
\* is appended and the length raised; then the next pooled transaction, or
\* _createNewBlock up to the await of the new block's initialize.
\* _finalizeBlock awaits nothing, so the working block is replaced before
\* any storage call of the job just pushed can return.
DrainInsert ==
  /\ cpc = "insert"
  /\ LET b == blocks[workingBlock]
         added == [blocks EXCEPT ![workingBlock] = BlockAdd(b, ctx)]
     IN /\ \E fault \in BOOLEAN :
             /\ fault => faultsLeft > 0
             /\ IF ~fault /\ CanInsertTransaction(blockFiles, workingBlock, b.length, TxHash(ctx))
                THEN /\ blockFiles' = InsertTransaction(blockFiles, workingBlock, b.length, TxHash(ctx))
                     /\ UNCHANGED <<faultsLeft, nFail>>
                ELSE /\ faultsLeft' = IF fault THEN faultsLeft - 1 ELSE faultsLeft
                     /\ nFail' = nFail + 1
                     /\ UNCHANGED blockFiles
        /\ IF transactionPool # <<>> /\ count + 1 < options.maxBlockTransactions
           THEN /\ ctx' = WithPrefix(Head(transactionPool))
                /\ transactionPool' = Tail(transactionPool)
                /\ count' = count + 1
                /\ blocks' = added
                /\ UNCHANGED <<cpc, jobs, job, events, workingBlock>>
           ELSE \E seed \in 0..MaxSeed, timestamp \in BlockTimestamps :
                  \E q \in {FinalizeBlock([QueueState EXCEPT !.blocks = added,
                                                             !.files = blockFiles'], seed)} :
                     /\ jobs' = q.jobs
                     /\ job' = q.job
                     /\ events' = Append(events, <<"blockSubmit", workingBlock>>)
                     /\ workingBlock' = NextWorkingIndex(workingBlock)
                     /\ blocks' = Ext(q.blocks, NextWorkingIndex(workingBlock),
                                      NewBlock(NextWorkingIndex(workingBlock), timestamp))
                     /\ cpc' = "rotate"
                     /\ count' = count + 1
                     /\ UNCHANGED <<ctx, transactionPool>>
  /\ UNCHANGED <<options, pendingPool, length, concurrency,
                 arg, ret, nAdds, accepted, calls, made, dir, blockTable, transIDX, memberFIDX, memberTIDX>>

\* _createNewBlock after the await of workingBlock.initialize(): the table of
\* the new working block is dropped and created; add() returns true.
Rotate ==
  /\ cpc = "rotate"
  /\ blockFiles' = StorageInitialize(blockFiles, workingBlock)
  /\ cpc' = "idle"
  /\ ret' = "true"
  /\ UNCHANGED <<options, transactionPool, pendingPool, workingBlock, blocks, length,
                 events, qvars, ctx, count, arg, nAdds, accepted, calls, made, dir,
                 blockTable, transIDX, memberFIDX, memberTIDX, faultsLeft, nFail>>

(***************************************************************************)
(* Specification: a caller that constructs a chain with any options,       *)
(* initializes it and calls add() one call after the other, each with any  *)
(* transaction, while the queue's jobs run in between.                     *)
(***************************************************************************)
Options ==
  [maxBlockTransactions : 1..MaxBatch, powHashPrefix : BOOLEAN,
   transactionPrefix : BOOLEAN, concurrency : 1..MaxConcurrency]

Constructed ==
  /\ transactionPool = <<>>
  /\ pendingPool = <<>>
  /\ workingBlock = -1
  /\ blocks = <<>>
  /\ length = 0
  /\ events = <<>>
  /\ concurrency = 0
  /\ jobs = <<>>
  /\ job = <<>>
  /\ cpc = "new"
  /\ ctx = NoTransaction
  /\ count = 0
  /\ arg = NoTransaction
  /\ ret = "none"
  /\ nAdds = 0
  /\ accepted = 0
  /\ calls = [c \in Callers |-> NoCall]
  /\ made = NotMade
  /\ dir = NoFiles
  /\ blockTable = {}
  /\ transIDX = {}
  /\ memberFIDX = {}
  /\ memberTIDX = {}
  /\ blockFiles = <<>>
  /\ nFail = 0

Init ==
  /\ options \in Options
  /\ faultsLeft = MaxFaults
  /\ Constructed

\* The caller stops short of filling a block with index MaxBlocks.
MayAdd(tx) ==
  \/ workingBlock < MaxBlocks
  \/ IsPendingTransaction(tx)
  \/ ~PoolIsFull(Append(transactionPool, tx))

CallAdd ==
  /\ nAdds < MaxAdds
  /\ \E f \in Fingerprints, ts \in Timestamps :
       MayAdd(Transaction(f, ts)) /\ Add(Transaction(f, ts))

Next ==
  \/ \E reload \in BOOLEAN : Initialize(reload)
  \/ CallAdd
  \/ DrainInsert
  \/ Rotate
  \/ \E i \in BlockIndexes : LoadPrev(i)
  \/ \E i \in BlockIndexes : ProofOfWork(i)
  \/ \E i \in BlockIndexes : CommitRow(i)
  \/ \E i \in BlockIndexes : CommitIndex(i)
  \/ \E i \in BlockIndexes : Settle(i)

Spec == Init /\ [][Next]_vars

\* One step of the job that runs (the queue runs one job at a time, and the
\* job is at one await at a time).
JobStep ==
  \E i \in BlockIndexes :
    LoadPrev(i) \/ ProofOfWork(i) \/ CommitRow(i) \/ CommitIndex(i) \/ Settle(i)

\* One step of the add() under way: its drain or its rotation.
CallerStep == DrainInsert \/ Rotate

\* The event loop runs every continuation that is ready: the add() under
\* way once its storage call has returned, and the job that runs.  The
\* caller is free to stop calling add().
Fairness == WF_vars(CallerStep) /\ WF_vars(JobStep)

\* The runs the liveness claims are checked on: as Spec, with the queue's
\* concurrency left to the constructor (which forces it to 1 anyway), every
\* transaction distinct and stamped with the same time, and one block more.
InitLive ==
  /\ options \in {o \in Options : o.concurrency = 1}
  /\ faultsLeft = MaxFaults
  /\ Constructed

\* The caller stops short of filling a block with index MaxLiveBlocks.
LiveMayAdd(tx) ==
  \/ workingBlock < MaxLiveBlocks
  \/ IsPendingTransaction(tx)
  \/ ~PoolIsFull(Append(transactionPool, tx))

LiveAdd ==
  /\ nAdds < MaxLiveAdds
  /\ LiveMayAdd(Transaction(nAdds + 1, 0))
  /\ Add(Transaction(nAdds + 1, 0))

NextLive ==
  \/ \E reload \in BOOLEAN : Initialize(reload)
  \/ LiveAdd
  \/ CallerStep
  \/ JobStep

FairSpec == InitLive /\ [][NextLive]_vars /\ Fairness

(***************************************************************************)
(* The scenario of test/chainytest.js: a chain that asks for blocks of     *)
(* three transactions, a proof-of-work prefix and a transaction prefix, is *)
(* reset by initialize(false) and is given six distinct transactions, one  *)
(* add() after the other, on a storage that does not fail.                 *)
(***************************************************************************)
ScenarioBatch == 3
ScenarioAdds == 6

ScenarioOptions ==
  [maxBlockTransactions |-> ScenarioBatch, powHashPrefix |-> TRUE,
   transactionPrefix |-> TRUE, concurrency |-> 1]

InitScenario ==
  /\ options = ScenarioOptions
  /\ faultsLeft = 0
  /\ Constructed

\* await chain.add(new Transaction('my data <n>')): the n-th payload, stamped
\* with the time of its construction.
ScenarioAdd ==
  /\ nAdds < ScenarioAdds
  /\ \E ts \in Timestamps : Add(Transaction(nAdds + 1, ts))

NextScenario ==
  \/ Initialize(FALSE)
  \/ ScenarioAdd
  \/ DrainInsert
  \/ Rotate
  \/ \E i \in BlockIndexes : LoadPrev(i)
  \/ \E i \in BlockIndexes : ProofOfWork(i)
  \/ \E i \in BlockIndexes : CommitRow(i)
  \/ \E i \in BlockIndexes : CommitIndex(i)
  \/ \E i \in BlockIndexes : Settle(i)

SpecScenario == InitScenario /\ [][NextScenario]_vars

(***************************************************************************)
(* Chains that are opened again: the process ends at any moment and a new  *)
(* Chain object is constructed on the storage it left, or the caller calls *)
(* initialize() again on the Chain object it has, between two add() calls  *)
(* and with no job of the queue under way.                                 *)
(***************************************************************************)
\* No job of the queue can take a step: each has settled, or will never.
Quiescent == \A i \in DOMAIN job : job[i].pc \in {"done", "hung"}

\* new Chain(name, storage, options) and initialize(reload) in a new
\* process: the constructor empties the pools, sets _length to 0 and makes
\* a new event emitter; what the old process had under way is lost.
Restart(reload) ==
  /\ cpc # "new"
  /\ InitializeChain(reload)
  /\ transactionPool' = <<>>
  /\ pendingPool' = <<>>
  /\ length' = 0
  /\ events' = <<>>
  /\ cpc' = "idle"
  /\ UNCHANGED <<ctx, count, arg, ret, nAdds, accepted, calls, made, dir, faultsLeft, nFail>>

\* initialize(reload) called again on the same Chain object: the pools,
\* _length and the event emitter are those the object had.
Reinitialize(reload) ==
  /\ cpc = "idle"
  /\ Quiescent
  /\ InitializeChain(reload)
  /\ UNCHANGED <<transactionPool, pendingPool, length, events,
                 cpc, ctx, count, arg, ret, nAdds, accepted, calls, made, dir, faultsLeft, nFail>>

\* add() with any payload, stamped with the same time.
ResumeAdd ==
  /\ nAdds < MaxResumeAdds
  /\ \E f \in Fingerprints :
       MayAdd(Transaction(f, 0)) /\ Add(Transaction(f, 0))

NextResume ==
  \/ \E reload \in BOOLEAN : Initialize(reload)
  \/ \E reload \in BOOLEAN : Restart(reload)
  \/ \E reload \in BOOLEAN : Reinitialize(reload)
  \/ ResumeAdd
  \/ CallerStep
  \/ JobStep

SpecResume == InitLive /\ [][NextResume]_vars

(***************************************************************************)
(* A reset under way: initialize(false) is called on the Chain object      *)
(* while jobs of its queue run.  Chain.queue is replaced, but the jobs of  *)
(* the old queue go on, their handlers still attached to the chain, and    *)
(* their storage calls go through the chain's storage object, whose        *)
(* handles now are those of the new files.  A file that was unlinked stays *)
(* readable through the handle a block of a running job holds.  The caller *)
(* then leaves the chain alone until those jobs are over.                  *)
(***************************************************************************)
\* The blocks whose jobs wait or run.
JobsUnderWay ==
  {i \in DOMAIN job : job[i].pc \notin {"done", "hung"}}
    \cup {jobs[p].index : p \in 1..Len(jobs)}

\* Jobs of a queue the chain has replaced are still there.
AfterReset == \E i \in DOMAIN job : i >= workingBlock

Reset ==
  /\ cpc = "idle"
  /\ JobsUnderWay # {}
  /\ 0 \notin JobsUnderWay
  /\ options' = [options EXCEPT !.concurrency = QueueConcurrency(@)]
  /\ blockTable' = KeptRows(FALSE, blockTable)
  /\ transIDX' = KeptRows(FALSE, transIDX)
  /\ memberFIDX' = KeptRows(FALSE, memberFIDX)
  /\ memberTIDX' = KeptRows(FALSE, memberTIDX)
  /\ blockFiles' = StorageInitialize([k \in JobsUnderWay |-> blockFiles[k]], 0)
  /\ workingBlock' = 0
  /\ \E timestamp \in BlockTimestamps :
       blocks' = Ext([k \in JobsUnderWay |-> blocks[k]], 0, NewBlock(0, timestamp))
  /\ UNCHANGED <<transactionPool, pendingPool, length, events, qvars,
                 avars, faultsLeft, nFail>>

\* add() once the jobs of a replaced queue are over.
ResetAdd == ~AfterReset /\ ResumeAdd

NextReset ==
  \/ \E reload \in BOOLEAN : Initialize(reload)
  \/ \E reload \in BOOLEAN : Restart(reload)
  \/ \E reload \in BOOLEAN : Reinitialize(reload)
  \/ Reset
  \/ ResetAdd
  \/ CallerStep
  \/ JobStep

SpecReset == InitLive /\ [][NextReset]_vars

(***************************************************************************)
(* Callers that do not wait: add() is called again while an earlier add()  *)
(* awaits its storage call.  Each call keeps what its own frame holds: the *)
(* transaction being inserted, its count, and the Block object and the     *)
(* position it passed to the storage when it made the call.                *)
(***************************************************************************)
Draining == {c \in Callers : calls[c].pc = "insert"}

\* The calls stop short of filling a block with index MaxBlocks.
OverlapMayAdd(tx) ==
  \/ workingBlock + Cardinality(Draining) < MaxBlocks
  \/ IsPendingTransaction(tx)
  \/ ~PoolIsFull(Append(transactionPool, tx))

\* Chain.add(transaction) up to its first await or its return, as call c.
\* Block.add reads this.length when it calls the storage.
OverlapAdd(c, tx) ==
  /\ cpc = "idle"
  /\ calls[c].pc = "idle"
  /\ \A d \in Callers : d < c => calls[d].pc # "idle"
  /\ nAdds < MaxOverlapAdds
  /\ OverlapMayAdd(tx)
  /\ arg' = tx
  /\ nAdds' = nAdds + 1
  /\ IF IsPendingTransaction(tx)
     THEN /\ ret' = "false"
          /\ UNCHANGED <<transactionPool, pendingPool, calls, accepted>>
     ELSE LET pool == Append(transactionPool, tx)
          IN /\ pendingPool' = Append(pendingPool, FamiliarHash(tx))
             /\ accepted' = accepted + 1
             /\ IF PoolIsFull(pool)
                THEN /\ transactionPool' = Tail(pool)
                     /\ calls' = [calls EXCEPT ![c] =
                          [pc |-> "insert", ctx |-> WithPrefix(Head(pool)), count |-> 0,
                           block |-> workingBlock, pos |-> blocks[workingBlock].length]]
                     /\ ret' = "none"
                ELSE /\ transactionPool' = pool
                     /\ ret' = "true"
                     /\ UNCHANGED calls
  /\ UNCHANGED <<options, workingBlock, blocks, length, events, qvars, svars, cpc, ctx, count, made, dir>>

\* _processTransactionPool of call c after the await of its Block.add: the
\* insert at the position passed has succeeded or failed, the hash is
\* appended to the Block object the call was made on and its length raised;
\* then the next pooled transaction goes to the block that is the working
\* block now, or _createNewBlock pushes that block and replaces it.
OverlapInsert(c) ==
  /\ calls[c].pc = "insert"
  /\ LET me == calls[c]
         added == [blocks EXCEPT ![me.block] = BlockAdd(@, me.ctx)]
     IN /\ \E fault \in BOOLEAN :
             /\ fault => faultsLeft > 0
             /\ IF ~fault /\ CanInsertTransaction(blockFiles, me.block, me.pos, TxHash(me.ctx))
                THEN /\ blockFiles' = InsertTransaction(blockFiles, me.block, me.pos, TxHash(me.ctx))
                     /\ UNCHANGED <<faultsLeft, nFail>>
                ELSE /\ faultsLeft' = IF fault THEN faultsLeft - 1 ELSE faultsLeft
                     /\ nFail' = nFail + 1
                     /\ UNCHANGED blockFiles
        /\ IF transactionPool # <<>> /\ me.count + 1 < options.maxBlockTransactions
           THEN /\ calls' = [calls EXCEPT ![c] =
                     [pc |-> "insert", ctx |-> WithPrefix(Head(transactionPool)),
                      count |-> me.count + 1, block |-> workingBlock,
                      pos |-> added[workingBlock].length]]
                /\ transactionPool' = Tail(transactionPool)
                /\ blocks' = added
                /\ UNCHANGED <<jobs, job, events, workingBlock>>
           ELSE \E seed \in 0..MaxSeed, timestamp \in BlockTimestamps :
                  \E q \in {FinalizeBlock([QueueState EXCEPT !.blocks = added,
                                                             !.files = blockFiles'], seed)} :
                     /\ jobs' = q.jobs
                     /\ job' = q.job
                     /\ events' = Append(events, <<"blockSubmit", workingBlock>>)
                     /\ workingBlock' = NextWorkingIndex(workingBlock)
                     /\ blocks' = Ext(q.blocks, NextWorkingIndex(workingBlock),
                                      NewBlock(NextWorkingIndex(workingBlock), timestamp))
                     /\ calls' = [calls EXCEPT ![c] =
                          [pc |-> "rotate", ctx |-> me.ctx, count |-> me.count + 1,
                           block |-> NextWorkingIndex(workingBlock), pos |-> 0]]
                     /\ UNCHANGED transactionPool
  /\ UNCHANGED <<options, pendingPool, length, concurrency, cpc, ctx, count, made, dir,
                 arg, ret, nAdds, accepted, blockTable, transIDX, memberFIDX, memberTIDX>>

\* _createNewBlock of call c after the await of the new block's
\* initialize(): its table is dropped and created; add() returns true.
OverlapRotate(c) ==
  /\ calls[c].pc = "rotate"
  /\ blockFiles' = StorageInitialize(blockFiles, calls[c].block)
  /\ calls' = [calls EXCEPT ![c] = NoCall]
  /\ ret' = "true"
  /\ UNCHANGED <<options, transactionPool, pendingPool, workingBlock, blocks, length,
                 events, qvars, cpc, ctx, count, arg, nAdds, accepted, made, dir,
                 blockTable, transIDX, memberFIDX, memberTIDX, faultsLeft, nFail>>

NextOverlap ==
  \/ \E reload \in BOOLEAN : Initialize(reload)
  \/ \E c \in Callers, f \in Fingerprints : OverlapAdd(c, Transaction(f, 0))
  \/ \E c \in Callers : OverlapInsert(c)
  \/ \E c \in Callers : OverlapRotate(c)
  \/ JobStep

SpecOverlap == InitLive /\ [][NextOverlap]_vars

(***************************************************************************)
(* Transactions as the caller constructs them.  An account ID is a string; *)
(* of it the model keeps which string it is (id), the length of its        *)
(* longest run of hexadecimal characters (hex) and its length (len).       *)
(***************************************************************************)
AccountLength == 64

Accounts ==
  {NoAccount} \cup
  {[id |-> i, hex |-> h, len |-> h + x] :
     i \in 1..MaxAccounts, h \in (AccountLength - 1)..(AccountLength + 1), x \in 0..1}

Noms == 0..MaxNom

\* Transaction._isValidAccount: accountID.match('[A-Fa-f0-9]{64}'), a
\* pattern without anchors: it matches when the string holds 64 hexadecimal
\* characters in a row.
IsValidAccount(accountID) == accountID.hex >= AccountLength

\* new Transaction(data, from, to, nom): the constructor's checks, in its
\* order; error is the message thrown, "none" when the object is made.
NewTransaction(from, to, nom) ==
  [from |-> from, to |-> to, nom |-> nom,
   error |->
     IF nom > 0 /\ from = NoAccount /\ to = NoAccount
       THEN "Cannot transfer noms without valid to/from account IDs"
     ELSE IF from # NoAccount /\ ~IsValidAccount(from) THEN "Invalid from account ID"
     ELSE IF to # NoAccount /\ ~IsValidAccount(to) THEN "Invalid to account ID"
     ELSE IF to # NoAccount /\ from = NoAccount THEN "Must specify from recipient"
     ELSE IF to = NoAccount /\ from # NoAccount THEN "Must specify to recipient"
     ELSE IF to # NoAccount /\ to = from THEN "Unable to transact between same account"
     ELSE "none"]

\* The caller constructs a transaction.
Construct ==
  /\ cpc = "idle"
  /\ nAdds = 0
  /\ \E from \in Accounts, to \in Accounts, nom \in Noms :
       made' = NewTransaction(from, to, nom)
  /\ UNCHANGED <<cvars, qvars, svars, cpc, ctx, count, arg, ret, nAdds, accepted, calls, dir>>

\* The transaction made, as the chain sees it: its payload is what its
\* familiar hash covers.
TransactionOf(m) == [f |-> <<m.from, m.to, m.nom>>, ts |-> 0, np |-> 0]

\* chain.add(transaction) of the object made: a constructor that threw has
\* left the caller no object to add.
AddMade ==
  /\ made.error = "none"
  /\ nAdds = 0
  /\ Add(TransactionOf(made))

InitTransaction ==
  /\ options = [maxBlockTransactions |-> MaxBatch, powHashPrefix |-> FALSE,
                transactionPrefix |-> FALSE, concurrency |-> 1]
  /\ faultsLeft = 0
  /\ Constructed

NextTransaction ==
  \/ Initialize(FALSE)
  \/ Construct
  \/ AddMade

SpecTransaction == InitTransaction /\ [][NextTransaction]_vars

(***************************************************************************)
(* A caller that keeps its Transaction objects: it holds one object for    *)
(* each payload and time, and adds it again whenever it likes.  The object *)
(* carries what the earlier passes through Block.add have done to it.      *)
(***************************************************************************)
\* The hashes pushed to the blocks for the object of payload f and time ts.
HashesOf(f, ts) ==
  UNION {{blocks[k].txs[p] : p \in {q \in 1..Len(blocks[k].txs) :
                                      /\ blocks[k].txs[q][2] = f
                                      /\ blocks[k].txs[q][3] = ts}} : k \in DOMAIN blocks}

\* How many times Block.add has set the prefix of that object.
Passes(f, ts) ==
  IF HashesOf(f, ts) = {} THEN 0
  ELSE CHOOSE n \in {h[1] : h \in HashesOf(f, ts)} : \A h \in HashesOf(f, ts) : h[1] <= n

\* The object as it is now.
TransactionObject(f, ts) == [f |-> f, ts |-> ts, np |-> Passes(f, ts)]

AddObject ==
  /\ nAdds < MaxObjectAdds
  /\ \E f \in Fingerprints, ts \in Timestamps :
       MayAdd(TransactionObject(f, ts)) /\ Add(TransactionObject(f, ts))

NextObjects ==
  \/ \E reload \in BOOLEAN : Initialize(reload)
  \/ AddObject
  \/ CallerStep
  \/ JobStep

SpecObjects == InitLive /\ [][NextObjects]_vars

(***************************************************************************)
(* What the claims speak of.                                               *)
(***************************************************************************)
Emitted(name, i) == \E p \in 1..Len(events) : events[p] = <<name, i>>
Submitted(i) == Emitted("blockSubmit", i)
Started(i) == i \in DOMAIN job
Finished(i) == i \in DOMAIN job /\ job[i].pc = "done"
IsCommitEvent(e) == e[1] \in {"blockCommit", "blockCommitError"}
Drained == jobs = <<>> /\ Pending(job) = 0
LastEvent == events[Len(events)]

\* The indexes of the blockSubmit events, in the order emitted.
RECURSIVE SubmitIndexes(_)
SubmitIndexes(ev) ==
  IF ev = <<>> THEN <<>>
  ELSE IF Head(ev)[1] = "blockSubmit" THEN <<Head(ev)[2]>> \o SubmitIndexes(Tail(ev))
  ELSE SubmitIndexes(Tail(ev))

\* commit() has not returned for the job of block i: it waits, or runs and
\* is not past its commit, or was rejected before it.
Uncommitted(i) ==
  /\ Submitted(i)
  /\ Started(i) => \/ job[i].pc \in {"load", "hung", "pow", "commit", "index"}
                   \/ job[i].err

\* Fingerprint f is in flight: in the pool, in the working block, or in a
\* submitted block whose commit() has not returned.
InFlight(f) ==
  \/ \E p \in 1..Len(transactionPool) : transactionPool[p].f = f
  \/ workingBlock \in DOMAIN blocks
       /\ \E p \in 1..Len(blocks[workingBlock].txs) : blocks[workingBlock].txs[p][2] = f
  \/ \E i \in DOMAIN blocks :
       Uncommitted(i) /\ \E p \in 1..Len(blocks[i].txs) : blocks[i].txs[p][2] = f

\* C1: blocks are committed in strict index order: the job of block j is not
\* started before the job of every submitted block i < j has finished, and
\* the blockCommit / blockCommitError events carry increasing indexes.
C1_CommitOrder ==
  /\ \A i, j \in BlockIndexes : (i < j /\ Submitted(i) /\ Started(j)) => Finished(i)
  /\ \A p, q \in 1..Len(events) :
       (p < q /\ IsCommitEvent(events[p]) /\ IsCommitEvent(events[q]))
         => events[p][2] < events[q][2]

\* Block 1 was submitted while block 0 was not yet committed, and both are.
C1_Witness ==
  \E p, q, r \in 1..Len(events) :
    /\ p < q /\ q < r
    /\ events[p] = <<"blockSubmit", 1>>
    /\ events[q] = <<"blockCommit", 0>>
    /\ events[r] = <<"blockCommit", 1>>

\* C2: the queue's concurrency is 1 whatever the caller asked for, at most
\* one job runs, and while the job of block k loads block k-1 the job of
\* block k-1 has finished.
C2_OneAtATime ==
  /\ cpc # "new" => concurrency = 1
  /\ Pending(job) <= 1
  /\ \A k \in DOMAIN job :
       (job[k].pc = "load" /\ (k - 1) \in DOMAIN blocks) => Finished(k - 1)

\* The job of block 1 is about to load block 0, and block 1 was submitted
\* before block 0's job settled.
C2_Witness ==
  /\ 1 \in DOMAIN job /\ job[1].pc = "load"
  /\ \E p, q \in 1..Len(events) :
       p < q /\ events[p] = <<"blockSubmit", 1>> /\ IsCommitEvent(events[q])

\* C3: each persisted block with index k > 0 has the persisted hash of block
\* k-1 as its previousHash.
C3_PreviousHashLinks ==
  \A r \in blockTable :
    r.i > 0 => /\ HasBlockRow(blockTable, r.i - 1)
               /\ r.previousHash = BlockRow(blockTable, r.i - 1).hash

\* C4: blockCommit(k) is emitted only when the storage commit of block k
\* succeeded; a failed commit gives blockCommitError(k) and leaves the
\* chain's length alone.
C4_CommitEventOnlyWhenPersisted ==
  /\ \A k \in DOMAIN job : Emitted("blockCommit", k) => job[k].success
  /\ \A k \in DOMAIN job :
       (Finished(k) /\ ~job[k].success) => Emitted("blockCommitError", k)
  /\ length <= Cardinality({k \in DOMAIN job : job[k].success})

\* C5: once the queue has drained, Chain.length is the number of rows of the
\* block table.
C5_LengthCountsCommitted ==
  Drained => length = Cardinality(blockTable)

\* C6: add() of a transaction whose fingerprint is in flight returns false
\* and changes neither the pool, the pending pool, the blocks nor the events.
C6_DuplicateRejected ==
  [][(cpc = "idle" /\ nAdds' = nAdds + 1 /\ InFlight(arg'.f))
       => (ret' = "false"
           /\ UNCHANGED <<transactionPool, pendingPool, workingBlock, blocks,
                          events, jobs, job, cpc>>)]_vars

\* add() has refused a transaction whose fingerprint is in a block not yet
\* committed, under another timestamp.
C6_Witness ==
  /\ ret = "false"
  /\ \E i \in DOMAIN blocks :
       /\ Uncommitted(i)
       /\ \E p \in 1..Len(blocks[i].txs) :
            blocks[i].txs[p][2] = arg.f /\ blocks[i].txs[p][3] # arg.ts

\* C7: a fingerprint stays in the pending pool until commit() of its block
\* returns, and once the job of its block has finished, failed or not, it is
\* pending only if a later transaction put it there again.
C7_ReleasedWhenJobFinishes ==
  /\ \A k \in DOMAIN job :
       job[k].pc \in {"load", "pow", "commit", "index"}
         => \A f \in Range(blocks[k].fam) : f \in Range(pendingPool)
  /\ \A k \in DOMAIN job :
       Finished(k) =>
         \A f \in Range(blocks[k].fam) :
           f \in Range(pendingPool) =>
             \/ \E p \in 1..Len(transactionPool) : FamiliarHash(transactionPool[p]) = f
             \/ cpc = "insert" /\ FamiliarHash(ctx) = f
             \/ \E j \in DOMAIN blocks : j # k /\ ~Finished(j) /\ f \in Range(blocks[j].fam)

\* C8: when blockCommitQueueEmpty is the latest event, no job waits or runs:
\* every block submitted has finished its job.
C8_QueueEmptyMeansDrained ==
  (events # <<>> /\ LastEvent = QueueEmptyEvent)
    => /\ Drained
       /\ \A k \in BlockIndexes : Submitted(k) => Finished(k)

\* blockCommitQueueEmpty has just been emitted after two blocks.
C8_Witness ==
  /\ events # <<>> /\ LastEvent = QueueEmptyEvent
  /\ Finished(0) /\ Finished(1)

\* The positions of events at which blockCommitQueueEmpty was emitted.
EmptyPositions == {p \in 1..Len(events) : events[p] = QueueEmptyEvent}

\* Event e was emitted before position p.
EmittedBefore(e, p) == \E q \in 1..(p - 1) : events[q] = e

\* The scenario is over: the six add() calls have returned and the queue
\* has drained.
ScenarioDone == nAdds = ScenarioAdds /\ cpc = "idle" /\ Drained /\ Finished(1)

\* C9, as stated: in the scenario blockCommitQueueEmpty is emitted at most
\* once, and only after blockCommit(0) and blockCommit(1).
C9_FiresOnceAfterBoth ==
  /\ Cardinality(EmptyPositions) <= 1
  /\ \A p \in EmptyPositions :
       EmittedBefore(<<"blockCommit", 0>>, p) /\ EmittedBefore(<<"blockCommit", 1>>, p)

\* C9, amended: in the scenario blockCommitQueueEmpty is emitted once or
\* twice.  Each emission follows the blockCommit of every block submitted
\* before it.  When the six add() calls have returned and the queue has
\* drained, it has been emitted twice exactly when the job of block 0
\* settled before block 1 was submitted, the latest event is
\* blockCommitQueueEmpty, after blockCommit(0) and blockCommit(1), and the
\* length is 2.
C9_FiresOnceOrTwice ==
  /\ Cardinality(EmptyPositions) <= 2
  /\ \A p \in EmptyPositions :
       \A k \in BlockIndexes :
         EmittedBefore(<<"blockSubmit", k>>, p) => EmittedBefore(<<"blockCommit", k>>, p)
  /\ ScenarioDone =>
       /\ Cardinality(EmptyPositions) = 2
            <=> \E p, q \in 1..Len(events) :
                  p < q /\ events[p] = <<"blockCommit", 0>> /\ events[q] = <<"blockSubmit", 1>>
       /\ LastEvent = QueueEmptyEvent
       /\ EmittedBefore(<<"blockCommit", 0>>, Len(events))
       /\ EmittedBefore(<<"blockCommit", 1>>, Len(events))
       /\ length = 2

\* The scenario is over and blockCommitQueueEmpty was emitted twice, the
\* first time before block 1 was submitted.
C9_Witness ==
  /\ ScenarioDone
  /\ Cardinality(EmptyPositions) = 2
  /\ \E p \in EmptyPositions : ~EmittedBefore(<<"blockSubmit", 1>>, p)

\* C10: with no storage failure, on a chain that started at index 0, the n
\* accepted add() calls that have returned have submitted the blocks
\* 0 .. n \div m - 1 in that order, and once the queue has drained
\* Chain.length is n \div m.
C10_BlocksSubmitted ==
  (nFail = 0 /\ 0 \in DOMAIN blocks /\ cpc = "idle")
    => LET n == accepted \div options.maxBlockTransactions
       IN /\ SubmitIndexes(events) = [p \in 1..n |-> p - 1]
          /\ Drained => length = n

\* Four accepted adds with maxBlockTransactions = 2: two blocks committed.
C10_Witness ==
  /\ nFail = 0 /\ cpc = "idle" /\ Drained
  /\ options.maxBlockTransactions = 2 /\ accepted = 4 /\ length = 2

\* The job of block k has told the chain how it ended.
Reported(k) == Emitted("blockCommit", k) \/ Emitted("blockCommitError", k)

\* The job of block k has failed: the load of the previous block threw or
\* found no row, or the storage commit returned false.
JobFailed(k) ==
  /\ k \in DOMAIN job
  /\ \/ job[k].pc = "hung"
     \/ job[k].err
     \/ job[k].pc \in {"settle", "done"} /\ ~job[k].success

\* C11: a failed job does not halt the queue: under fair scheduling every
\* block submitted after a block whose job has failed is still processed and
\* produces its own blockCommit or blockCommitError.
C11_QueueNeverHalts ==
  \A k, j \in BlockIndexes :
    k < j => ((JobFailed(k) /\ Submitted(j)) ~> Reported(j))

\* C12, as stated: when block k was never persisted and no other storage
\* call of the run has failed, block k+1 is committed all the same, leaving
\* a gap at k.
C12_GapLeft ==
  \A k \in BlockIndexes :
    (JobFailed(k) /\ Finished(k) /\ ~HasBlockRow(blockTable, k)
       /\ nFail = 1 /\ Finished(k + 1))
      => HasBlockRow(blockTable, k + 1)

\* C12, amended: the committed indexes never show a gap.  A block is
\* persisted only when the block before it is, and the job of a block whose
\* predecessor has no row ends with blockCommitError and persists nothing.
C12_NoGap ==
  \A j \in BlockIndexes :
    j > 0 =>
      /\ HasBlockRow(blockTable, j) => HasBlockRow(blockTable, j - 1)
      /\ (Finished(j) /\ ~HasBlockRow(blockTable, j - 1))
           => /\ Emitted("blockCommitError", j)
              /\ ~Emitted("blockCommit", j)
              /\ ~HasBlockRow(blockTable, j)

\* Block 0 was not persisted, and the job of block 1 has ended with
\* blockCommitError(1) although none of its storage calls failed.
C12_Witness ==
  /\ Finished(0) /\ ~HasBlockRow(blockTable, 0)
  /\ Finished(1) /\ nFail = 1
  /\ Emitted("blockCommitError", 1)

\* A storage read of a job has thrown: the one storage call of the job that
\* does not return to it.
SomeHung == \E i \in DOMAIN job : job[i].pc = "hung"

\* Block k has produced its event and blockCommitQueueEmpty was emitted
\* after it.
EmptyAfter(k) ==
  \E p \in EmptyPositions :
    EmittedBefore(<<"blockCommit", k>>, p) \/ EmittedBefore(<<"blockCommitError", k>>, p)

C14_FailedAddAbortsRotation ==
  [][(cpc = "insert" /\ nFail' = nFail + 1)
       => /\ ret' = "false"
          /\ cpc' = "idle"
          /\ UNCHANGED <<events, workingBlock, jobs, job, transactionPool>>]_vars

\* C15, as stated: once the chain is initialized, the index of the working
\* block is one more than the highest committed index (0 when no block is
\* committed).
C15_OneAboveCommitted ==
  cpc # "new" => workingBlock = NextIndex(blockTable)

\* C15, amended: once the chain is initialized on an empty storage there is
\* one working block; its index is one more than the highest submitted
\* index (0 when no block is submitted), every other block of the chain has
\* been submitted, and every committed index is below it.
C15_OneAboveSubmitted ==
  cpc # "new" =>
    /\ workingBlock \in DOMAIN blocks
    /\ workingBlock = Len(SubmitIndexes(events))
    /\ \A k \in DOMAIN blocks : k # workingBlock <=> Submitted(k)
    /\ NextIndex(blockTable) <= workingBlock

\* Blocks 0 and 1 are submitted and none is committed: the working block
\* has index 2.
C15_Witness ==
  /\ workingBlock = 2 /\ Submitted(0) /\ Submitted(1)
  /\ blockTable = {} /\ nFail = 0

\* The hash of the stored block k, recomputed from storage: the fields of
\* its row of table block and the hashes of table block_<k>.
StoredHash(k) ==
  LET row == BlockRow(blockTable, k)
  IN ObjectHash(k, row.previousHash, row.length, row.entropy, row.timestamp,
                LoadTransactionHashes(blockFiles, k))

\* The job of block k has got past the load of the previous block.
Sealing(k) ==
  /\ k \in DOMAIN job
  /\ job[k].pc \in {"pow", "commit", "index", "settle", "done"}
  /\ ~job[k].err

\* C16: a block k > 0 is sealed with the hash of block k-1 recomputed from
\* storage as its previousHash, whatever hash the Block object of k-1 holds
\* in memory; block 0 is sealed with the null previousHash and its job loads
\* nothing.
C16_PreviousHashFromStorage ==
  \A k \in DOMAIN job :
    IF k > 0
    THEN Sealing(k) => /\ HasBlockRow(blockTable, k - 1)
                       /\ blocks[k].previousHash = StoredHash(k - 1)
    ELSE /\ job[k].pc \notin {"load", "hung"}
         /\ ~job[k].err
         /\ blocks[k].previousHash = NullHash

\* Block 1 is sealed and committed with a previousHash that is not the hash
\* the Block object of block 0 holds in memory.
C16_Witness ==
  /\ Sealing(1) /\ job[1].pc = "done"
  /\ blocks[1].previousHash # blocks[0].hash
  /\ blocks[1].previousHash = StoredHash(0)

\* C17: round trip: for every committed block, the hash recomputed from the
\* block as loaded from storage is the hash stored at commit time.
C17_RoundTrip ==
  \A r \in blockTable : StoredHash(r.i) = r.hash

\* C18: for every committed block, the stored length is the number of rows
\* of table block_<index>, the rows have the positions 0 .. length-1, and
\* read in that order they are the block's transactions as they were added.
C18_LengthMatchesRows ==
  \A r \in blockTable :
    /\ r.i \in DOMAIN blockFiles
    /\ Cardinality(blockFiles[r.i]) = r.length
    /\ {row.i : row \in blockFiles[r.i]} = 0..(r.length - 1)
    /\ LoadTransactionHashes(blockFiles, r.i) = blocks[r.i].txs

\* C19: when powHashPrefix is set, the hash stored for every committed block
\* starts with the prefix.
C19_StoredHashHasPrefix ==
  options.powHashPrefix => \A r \in blockTable : HasPowPrefix(r.hash)

\* A block is committed under a prefix after the search had to move off the seed.
C19_Witness ==
  /\ options.powHashPrefix
  /\ \E r \in blockTable :
       /\ r.i \in DOMAIN job
       /\ r.entropy > job[r.i].seed
       /\ HasPowPrefix(r.hash)

\* The block's hash as _proofOfWork computes it at entropy e.
HashAt(b, e) ==
  ObjectHash(b.index, b.previousHash, b.length, e, b.timestamp, b.txs)

\* The job of block i has left Block.build: _proofOfWork has returned.
Sealed(i) ==
  /\ i \in DOMAIN job
  /\ job[i].pc \in {"commit", "index", "settle", "done"}
  /\ ~job[i].err

SealedAtSmallestEntropy ==
  \A i \in DOMAIN job :
    Sealed(i) =>
      /\ blocks[i].hash = HashAt(blocks[i], blocks[i].entropy)
      /\ IF options.powHashPrefix
         THEN /\ blocks[i].entropy >= job[i].seed
              /\ HasPowPrefix(blocks[i].hash)
              /\ \A e \in job[i].seed..(blocks[i].entropy - 1) :
                   ~HasPowPrefix(HashAt(blocks[i], e))
         ELSE blocks[i].entropy = job[i].seed

EntropyStep ==
  \A i \in DOMAIN job :
    (i \in DOMAIN job' /\ job[i].pc = "pow" /\ blocks'[i] # blocks[i]) =>
      /\ options.powHashPrefix
      /\ ~HasPowPrefix(blocks[i].hash)
      /\ blocks'[i].entropy = blocks[i].entropy + 1
      /\ blocks'[i].hash = HashAt(blocks[i], blocks[i].entropy + 1)

\* C20: build(previousHash, seed) under a prefix ends at the smallest entropy
\* >= seed whose hash has the prefix, each failed attempt raises the entropy
\* by exactly one, and the hash left is the hash at the final entropy; with
\* no prefix the entropy is the seed and the hash is computed once, with it.
C20_SealSearch ==
  []SealedAtSmallestEntropy /\ [][EntropyStep]_vars

\* A block sealed under a prefix from a seed other than 0, after one failed
\* attempt.
C20_Witness ==
  \E i \in DOMAIN job :
    /\ Sealed(i)
    /\ options.powHashPrefix
    /\ blocks[i].entropy = job[i].seed + 1
    /\ job[i].seed > 0

\* initialize(reload) has just returned, on a new Chain object or on the one
\* the caller had.
Initialized(reload) == Initialize(reload) \/ Restart(reload) \/ Reinitialize(reload)

\* The highest index of table block, -1 when the table is empty.
HighestCommitted ==
  IF blockTable = {} THEN -1
  ELSE CHOOSE k \in {r.i : r \in blockTable} : \A r \in blockTable : r.i <= k

\* The working block is the only Block object, holds nothing and its table
\* exists and is empty.
WorkingBlockIsNew ==
  /\ workingBlock \in DOMAIN blocks
  /\ blocks[workingBlock].index = workingBlock
  /\ blocks[workingBlock].length = 0
  /\ blocks[workingBlock].txs = <<>>
  /\ workingBlock \in DOMAIN blockFiles
  /\ blockFiles[workingBlock] = {}

\* C21: when initialize(true) returns, the working block is a new empty
\* block whose index is one above the highest index of table block, or 0
\* when the table is empty.
C21_ResumeAfterLast ==
  [][Initialized(TRUE) =>
       (workingBlock = HighestCommitted + 1 /\ WorkingBlockIsNew)']_vars

\* A chain resumed on storage that holds committed blocks: the queue is new,
\* the table is not empty and the working block follows it.
C21_Witness ==
  /\ cpc = "idle"
  /\ job = <<>> /\ jobs = <<>>
  /\ blockTable # {}
  /\ workingBlock = HighestCommitted + 1
  /\ workingBlock > 0
  /\ DOMAIN blocks = {workingBlock}

\* C22: when initialize(true) returns on storage that holds n committed
\* blocks, chain.length is n.
C22_LengthAfterResume ==
  [][Initialized(TRUE) => (length = Cardinality(blockTable))']_vars

\* Nothing is stored under the chain's name but the empty table of block 0.
StorageIsFresh ==
  /\ blockTable = {}
  /\ transIDX = {}
  /\ memberFIDX = {}
  /\ memberTIDX = {}
  /\ DOMAIN blockFiles = {0}
  /\ blockFiles[0] = {}

\* C23: when initialize(false) returns, nothing of the chain's earlier
\* content remains, the working block is an empty block 0 and chain.length
\* is 0, also on a Chain object that had committed blocks before.
C23_FreshAfterReset ==
  [][Initialized(FALSE) =>
       (StorageIsFresh /\ workingBlock = 0 /\ WorkingBlockIsNew /\ length = 0)']_vars

\* Storage Chain.findTransactionByHash: SELECT * FROM trans WHERE hash = ? LIMIT 1.
FindTransactionByHash(h) == {r \in transIDX : r.hash = h}

\* The hashes a transaction can have.
TxHashes == {<<np, f, ts>> : np \in 0..1, f \in Fingerprints, ts \in Timestamps}

\* h is a transaction of a block whose row is in table block.
InCommittedBlock(h) ==
  \E k \in DOMAIN blocks :
    HasBlockRow(blockTable, k) /\ h \in Range(blocks[k].txs)

\* C24: after blockCommit(k), findTransactionByHash returns for every
\* transaction of block k a record naming block k and the transaction's
\* position in it; for a hash that is in no committed block it returns
\* nothing.
C24_IndexAfterCommit ==
  /\ \A k \in DOMAIN blocks :
       Emitted("blockCommit", k) =>
         \A p \in 1..Len(blocks[k].txs) :
           \E r \in FindTransactionByHash(blocks[k].txs[p]) : r.block = k /\ r.i = p - 1
  /\ \A h \in TxHashes : ~InCommittedBlock(h) => FindTransactionByHash(h) = {}

\* How many times the event <<name, i>> was emitted.
TimesEmitted(name, i) ==
  Cardinality({p \in 1..Len(events) : events[p] = <<name, i>>})

\* Each blockSubmit(k) is emitted at most once, each blockCommit(k) or
\* blockCommitError(k) follows a blockSubmit(k), and a block gets at most one
\* of the two.
EventsInOrder ==
  /\ \A k \in BlockIndexes \cup {MaxLiveBlocks} :
       /\ TimesEmitted("blockSubmit", k) <= 1
       /\ TimesEmitted("blockCommit", k) + TimesEmitted("blockCommitError", k) <= 1
  /\ \A q \in 1..Len(events) :
       IsCommitEvent(events[q]) =>
         \E p \in 1..(q - 1) : events[p] = <<"blockSubmit", events[q][2]>>

\* C25: blockSubmit(k) is emitted exactly once per index and before
\* blockCommit(k) or blockCommitError(k), and every submitted block gets
\* exactly one of blockCommit(k) and blockCommitError(k).
C25_OneOutcomePerBlock ==
  /\ []EventsInOrder
  /\ \A k \in BlockIndexes \cup {MaxLiveBlocks} : Submitted(k) ~> Reported(k)

\* A block that was submitted keeps its transaction list and its length.
SubmittedBlocksFrozen ==
  \A k \in DOMAIN blocks :
    Submitted(k) =>
      /\ k \in DOMAIN blocks'
      /\ blocks'[k].txs = blocks[k].txs
      /\ blocks'[k].length = blocks[k].length

\* The row of a committed block carries the block's length and the hash of
\* the block's transaction list.
CommittedAsSubmitted ==
  \A r \in blockTable :
    r.i \in DOMAIN blocks =>
      /\ r.length = blocks[r.i].length
      /\ r.length = Len(blocks[r.i].txs)
      /\ r.hash = ObjectHash(r.i, r.previousHash, r.length, r.entropy, r.timestamp,
                             blocks[r.i].txs)

\* C26: a block only advances open -> sealed -> committed: once it is handed
\* to the queue no transaction is added to it, and the list and the length
\* it had when submitted are those hashed and committed.
C26_NoAddAfterSubmit ==
  [][SubmittedBlocksFrozen]_vars /\ []CommittedAsSubmitted

\* At most maxBlockTransactions transactions per block, every block that no
\* call is still inserting into holds in its table what was added to it
\* (while no storage call was made to fail), and each index is submitted
\* at most once.
BlocksWellFilled ==
  /\ \A k \in DOMAIN blocks : blocks[k].length <= options.maxBlockTransactions
  /\ faultsLeft = MaxFaults =>
       \A k \in DOMAIN blocks :
         (\A c \in Callers : calls[c].pc = "insert" => calls[c].block # k) =>
           LoadTransactionHashes(blockFiles, k) = blocks[k].txs
  /\ \A k \in BlockIndexes : TimesEmitted("blockSubmit", k) <= 1

\* C28: no two drains interleave: while one add() is inside its drain or
\* its rotation no other add() moves transactions into the working block
\* or rotates it, so that blocks are filled, persisted and submitted as by
\* calls made one after the other.
C28_DrainsDoNotInterleave ==
  /\ Cardinality({c \in Callers : calls[c].pc # "idle"}) <= 1
  /\ BlocksWellFilled

\* How far the job of a block has come: build (load, pow), commit (commit,
\* index), the settling of its promise; a job that hangs stays where it is.
JobRank(pc) ==
  CASE pc = "load" -> 0
    [] pc = "pow" -> 1
    [] pc = "commit" -> 2
    [] pc = "index" -> 3
    [] pc = "settle" -> 4
    [] pc = "done" -> 5
    [] pc = "hung" -> 6

\* The indexes of the jobs that wait in the queue.
Waiting == {jobs[p].index : p \in 1..Len(jobs)}

\* A block is in the queue at most once: waiting once, or started.
EnqueuedOnce ==
  /\ \A p, q \in 1..Len(jobs) : jobs[p].index = jobs[q].index => p = q
  /\ Waiting \cap DOMAIN job = {}
  /\ \A k \in BlockIndexes : TimesEmitted("blockSubmit", k) <= 1

\* A job only moves forward, passes commit once, and once it has settled or
\* hangs nothing of it changes and its block is not pushed again.
JobRunsOnce ==
  \A i \in DOMAIN job :
    /\ i \in DOMAIN job'
    /\ JobRank(job'[i].pc) >= JobRank(job[i].pc)
    /\ job[i].pc \in {"commit", "index"} /\ job'[i] # job[i]
         => JobRank(job'[i].pc) > JobRank(job[i].pc)
    /\ job[i].pc \in {"done", "hung"} => job'[i] = job[i]
    /\ job[i].seed = job'[i].seed
    /\ i \notin {jobs'[p].index : p \in 1..Len(jobs')}

\* C27: build and commit are each called at most once per block: a block is
\* enqueued once, its job runs once, and a block whose job has failed is
\* neither enqueued nor run again.
C27_SealAndCommitOnce ==
  []EnqueuedOnce /\ [][JobRunsOnce]_vars

\* The job of a block has failed and is over, and the job of a later block
\* has run to its end.
C27_Witness ==
  \E k, j \in DOMAIN job :
    /\ k < j
    /\ job[k].pc = "done" /\ ~job[k].success
    /\ job[j].pc = "done"

\* C29: when the storage rejects the insert of a transaction, Block.add
\* fails: no row is created, and the block's length and its list of
\* transaction hashes stay as they were.
C29_RejectedInsertLeavesBlock ==
  [][(DrainInsert /\ nFail' = nFail + 1)
       => /\ blockFiles'[workingBlock] = blockFiles[workingBlock]
          /\ blocks'[workingBlock].length = blocks[workingBlock].length
          /\ blocks'[workingBlock].txs = blocks[workingBlock].txs]_vars

\* The chain-level tables: block and the transaction index.
ChainTables == <<blockTable, transIDX>>

\* A step of the queue worker inside Storage Block.commit.
CommitStep == \E i \in BlockIndexes : CommitRow(i) \/ CommitIndex(i)

\* A step of add(): the call itself, its drain, its rotation.
AddStep == (cpc = "idle" /\ nAdds' = nAdds + 1) \/ CallerStep

\* C30: the rows of table block and of the transaction index are written by
\* the commit step of the queue worker only: add(), the drain, the rotation
\* and the opening of a working block leave both as they are (only
\* initialize(false) removes them).
C30_OnlyCommitWrites ==
  [][/\ ChainTables' # ChainTables => (CommitStep \/ Initialized(FALSE))
     /\ (AddStep \/ Initialized(TRUE)) => ChainTables' = ChainTables]_vars

\* A chain resumed on one committed block has submitted the next one and is
\* in its rotation: the rows committed before are in place.
C30_Witness ==
  /\ cpc = "rotate"
  /\ blockTable # {} /\ transIDX # {}
  /\ DOMAIN job = {HighestCommitted + 1}
  /\ workingBlock = HighestCommitted + 2

\* A working block has just been opened: by initialize, or by the rotation
\* that follows a submit.
WorkingBlockOpened == Initialized(TRUE) \/ Initialized(FALSE) \/ Rotate

Is64Hex(accountID) == accountID.hex = AccountLength /\ accountID.len = AccountLength

\* from is present exactly when to is; when present they differ and each is
\* a 64-hex-character identifier; nom > 0 implies both are present.
WellFormed(from, to, nom) ==
  /\ from = NoAccount <=> to = NoAccount
  /\ from # NoAccount => from # to /\ Is64Hex(from) /\ Is64Hex(to)
  /\ nom > 0 => from # NoAccount /\ to # NoAccount

\* C32: every transaction that is constructed is well formed, one that is
\* not is never in the pool, and nom > 0 with neither from nor to fails
\* with the error for noms without accounts.
C32_ValidTransactions ==
  /\ made.error = "none" => WellFormed(made.from, made.to, made.nom)
  /\ \A p \in 1..Len(transactionPool) :
       WellFormed(transactionPool[p].f[1], transactionPool[p].f[2], transactionPool[p].f[3])
  /\ (made.error # "not constructed" /\ made.nom > 0
        /\ made.from = NoAccount /\ made.to = NoAccount)
       => made.error = "Cannot transfer noms without valid to/from account IDs"

\* The number of prefixes a transaction hash must carry.
PrefixesAsked == IF options.transactionPrefix THEN 1 ELSE 0

\* C33: setting the prefix leaves the familiar hash as it was, and the hash
\* of a transaction carries the prefix at most once: it is the prefix
\* followed by the hash computed at construction, however many times the
\* same Transaction object goes through add() and a drain.
C33_PrefixOnce ==
  \A k \in DOMAIN blocks :
    \A p \in 1..Len(blocks[k].txs) :
      /\ blocks[k].fam[p] = blocks[k].txs[p][2]
      /\ blocks[k].txs[p][1] = PrefixesAsked

\* The indexes of table block are 0 .. n-1.
ContiguousRows == {r.i : r \in blockTable} = 0..(Cardinality(blockTable) - 1)

\* A row of index k > 0 is inserted only when the row of k-1 is there.
RowAfterItsPredecessor ==
  \A r \in blockTable' \ blockTable : r.i > 0 => HasBlockRow(blockTable, r.i - 1)

\* C34: the indexes of the persisted blocks always are a range that starts
\* at 0: the row of a block k > 0 is persisted only if the row of block k-1
\* exists then, in runs that mix resets, resumes, adds and failed jobs.
C34_ContiguousIndexes ==
  []ContiguousRows /\ [][RowAfterItsPredecessor]_vars

\* The INSERTs of the commit of block i are under way: the row of table
\* block is written and the loop over the hashes is not over.
CommitUnderWay(i) == i \in DOMAIN job /\ job[i].pc = "index"

\* Every hash stored for block i has its row in each of the three indexes.
Indexed(i) ==
  \A h \in Range(LoadTransactionHashes(blockFiles, i)) :
    /\ \E t \in transIDX : t.hash = h /\ t.block = i
    /\ \E m \in memberFIDX : m.hash = h /\ m.block = i
    /\ \E m \in memberTIDX : m.hash = h /\ m.block = i

\* C35: commit is all-or-nothing.  Once the INSERTs of a commit are over, a
\* block that has its row in table block has every one of its transaction
\* hashes in the indexes, and at all times an index row names a block that
\* has its row in table block.
C35_AllOrNothing ==
  /\ \A r \in blockTable : ~CommitUnderWay(r.i) => Indexed(r.i)
  /\ \A t \in transIDX : HasBlockRow(blockTable, t.block)
  /\ \A m \in memberFIDX \cup memberTIDX : HasBlockRow(blockTable, m.block)

(***************************************************************************)
(* Several chains kept in one directory.  A file name is the sequence of   *)
(* its characters; dir maps the names of the files of the directory to the *)
(* number of rows the file holds.                                          *)
(***************************************************************************)
MaxDirIndex == 0
MaxDirRows == 1
PadLength == 11

\* path.basename(name) of the chains that share the directory.
ChainNames == {<<"a">>, <<"a", "b">>, <<"c">>}

DbSuffix == <<".", "d", "b">>
TransIdxSuffix == <<".", "t", ".", "i", "d", "x">> \o DbSuffix
MemberTIdxSuffix == <<".", "m", ".", "t", ".", "i", "d", "x">> \o DbSuffix
MemberFIdxSuffix == <<".", "m", ".", "f", ".", "i", "d", "x">> \o DbSuffix

\* index.toString()
RECURSIVE IndexToString(_)
IndexToString(n) ==
  LET digit == <<"0", "1", "2", "3", "4", "5", "6", "7", "8", "9">>[(n % 10) + 1]
  IN IF n < 10 THEN <<digit>> ELSE IndexToString(n \div 10) \o <<digit>>

\* `00000000000${index}`.substring(index.toString().length)
PaddedIndex(index) ==
  LET s == [k \in 1..PadLength |-> "0"] \o IndexToString(index)
  IN SubSeq(s, Len(IndexToString(index)) + 1, Len(s))

\* Storage Block.open: `${name}.b_${paddedIndex}.db`
BlockFile(name, index) == name \o <<".", "b", "_">> \o PaddedIndex(index) \o DbSuffix

\* The four files Storage Chain.initialize opens.
ChainFile(name) == name \o DbSuffix
IndexFiles(name) ==
  {name \o TransIdxSuffix, name \o MemberTIdxSuffix, name \o MemberFIdxSuffix}
ChainFiles(name) == {ChainFile(name)} \cup IndexFiles(name)

\* Every file that belongs to the chain called name.
ArtifactsOf(name) == ChainFiles(name) \cup {BlockFile(name, i) : i \in 0..MaxDirIndex}

\* String.prototype.indexOf, file.indexOf(name): where name first occurs in file, counted from 0; -1
\* when it does not occur.
StringIndexOf(file, name) ==
  LET at == {k \in 0..(Len(file) - Len(name)) : SubSeq(file, k + 1, k + Len(name)) = name}
  IN IF at = {} THEN -1 ELSE CHOOSE k \in at : \A j \in at : k <= j

\* readdirSync(path).forEach: unlink the files whose name holds the chain's.
Unlinked(d, name) == [file \in {g \in DOMAIN d : StringIndexOf(g, name) = -1} |-> d[file]]

\* sqlite.open and CREATE ... IF NOT EXISTS: a missing file is made, empty.
Opened(d, files) ==
  [file \in DOMAIN d \cup files |-> IF file \in DOMAIN d THEN d[file] ELSE 0]

\* Storage Chain.initialize(reload)
StorageChainInitialize(d, name, reload) ==
  Opened(IF reload THEN d ELSE Unlinked(d, name), ChainFiles(name))

\* The chain called name is initialized, to resume or anew.
DirInitialize(name, reload) ==
  /\ dir' = StorageChainInitialize(dir, name, reload)
  /\ UNCHANGED <<cvars, qvars, svars, cpc, ctx, count, arg, ret, nAdds, accepted, calls, made>>

\* Storage Block.initialize of block index of an initialized chain: the file
\* is opened and its table dropped and created.
DirBlockInitialize(name, index) ==
  /\ ChainFiles(name) \subseteq DOMAIN dir
  /\ dir' = [Opened(dir, {BlockFile(name, index)}) EXCEPT ![BlockFile(name, index)] = 0]
  /\ UNCHANGED <<cvars, qvars, svars, cpc, ctx, count, arg, ret, nAdds, accepted, calls, made>>

\* Storage Block.addTransactionToBlock: one more row in the block's file.
DirAddTransaction(name, index) ==
  /\ BlockFile(name, index) \in DOMAIN dir
  /\ dir[BlockFile(name, index)] < MaxDirRows
  /\ dir' = [dir EXCEPT ![BlockFile(name, index)] = @ + 1]
  /\ UNCHANGED <<cvars, qvars, svars, cpc, ctx, count, arg, ret, nAdds, accepted, calls, made>>

\* Storage Block.commit: one row of table block, and for each hash of the
\* block one row in each index.
DirCommit(name, index) ==
  /\ ArtifactsOf(name) \subseteq DOMAIN dir
  /\ dir[ChainFile(name)] = index
  /\ dir' = [file \in DOMAIN dir |->
               IF file = ChainFile(name) THEN dir[file] + 1
               ELSE IF file \in IndexFiles(name)
                 THEN dir[file] + dir[BlockFile(name, index)]
               ELSE dir[file]]
  /\ UNCHANGED <<cvars, qvars, svars, cpc, ctx, count, arg, ret, nAdds, accepted, calls, made>>

NextDirectory ==
  \E name \in ChainNames, index \in 0..MaxDirIndex :
    \/ DirInitialize(name, TRUE)
    \/ DirInitialize(name, FALSE)
    \/ DirBlockInitialize(name, index)
    \/ DirAddTransaction(name, index)
    \/ DirCommit(name, index)

SpecDirectory == InitTransaction /\ [][NextDirectory]_vars

\* The files of chain name that are in the directory are as they were.
Untouched(name) ==
  \A file \in ArtifactsOf(name) \cap DOMAIN dir :
    file \in DOMAIN dir' /\ dir'[file] = dir[file]

\* C36: initialize(false) of the chain called a leaves the files of every
\* chain of another name in the same directory as they were, also when one
\* of the two names is contained in the other.
C36_OnlyOwnArtifacts ==
  [][\A a \in ChainNames :
       DirInitialize(a, FALSE) => \A b \in ChainNames \ {a} : Untouched(b)]_vars

====
